---------------------------- MODULE Spec2Model ----------------------------
(***************************************************************************)
(* Model of streamlit_app.py, the Streamlit front end of the RAG Document  *)
(* Analyzer.                                                               *)
(*                                                                         *)
(* Streamlit re-executes the whole script, top to bottom, once per user    *)
(* interaction of a session.  One action of the model is one interaction:  *)
(* it changes the widget the user touched and then runs the script         *)
(* (operator Script) for that session.  st.session_state is per session;   *)
(* the directory tempfile.gettempdir()/uploaded_document is shared by all  *)
(* sessions of the server process.                                         *)
(*                                                                         *)
(* The five functions imported from qa_agent are external: a call either   *)
(* returns a text or raises.  Its outcome is an input of the action.  An   *)
(* exception is not caught by the script, so it ends the script run: what  *)
(* the script would have rendered after that point is not on the screen.   *)
(*                                                                         *)
(* st.file_uploader hands the script a fresh UploadedFile positioned at    *)
(* offset 0 on every run, so every run with a file in the uploader writes  *)
(* the whole file again.                                                   *)
(***************************************************************************)
EXTENDS Integers, Sequences, FiniteSets, TLC

VARIABLES
    uploader,        \* widget: the file held by st.file_uploader, per session
    model,           \* widget: st.selectbox "Select Model", per session
    temp,            \* widget: st.slider temperature, in hundredths, per session
    chunk_size,      \* widget: st.number_input chunk size, per session
    uploaded_path,   \* st.session_state.uploaded_path, per session
    chat_history,    \* st.session_state.chat_history, per session
    last_summary,    \* st.session_state.last_summary, per session
    last_insights,   \* st.session_state.last_insights, per session
    last_mcqs,       \* st.session_state.last_mcqs, per session
    fs,              \* files under gettempdir()/uploaded_document, by path
    screen,          \* what the last script run of each session rendered
    last             \* the last script run: session, trigger, external calls

vars == <<uploader, model, temp, chunk_size, uploaded_path, chat_history,
          last_summary, last_insights, last_mcqs, fs, screen, last>>

---------------------------------------------------------------------------
(* Bounds of the model *)

\* longest chat history explored by Spec
MaxChat == 2
\* longest chat history explored by SpecChat
MaxHist == 6
\* longest chat history explored by SpecMulti
MaxChatMulti == 1

---------------------------------------------------------------------------
(* Values *)

Sessions == {"A", "B"}

valid_models == <<"gpt-4o-mini", "gpt-4o", "gpt-3.5-turbo">>
ModelIndex == 1
Models == {valid_models[i] : i \in 1..Len(valid_models)}

\* st.slider(0.0, 1.0, 0.3, 0.05), in hundredths
TempMin == 0
TempMax == 100
TempDefault == 30
TempStep == 5
TempValues == {t \in TempMin..TempMax : (t - TempMin) % TempStep = 0}

\* st.number_input(256, 4096, 1024, 64)
ChunkMin == 256
ChunkMax == 4096
ChunkDefault == 1024
ChunkStep == 64
ChunkValues == {c \in ChunkMin..ChunkMax : (c - ChunkMin) % ChunkStep = 0}

\* num_questions of generate_mcq
NumQuestions == 10
\* chat_history[-5:]
ShownTurns == 5

\* file names a user uploads (type=["pdf", "csv"])
FileNames == {"report.pdf", "data.csv"}

\* Python None for a text of the session state; "" is the empty text
None == "<None>"
\* Python None for uploaded_path (str(dst) is never empty)
NoPath == << >>
\* the uploader holds no file
NoFile == [name |-> "", data |-> ""]
\* no file at a path
NoData == "<no file>"

\* bool(v) of an optional text: None and "" are falsy
Truthy(v) == v \notin {None, ""}

\* Path(tempfile.gettempdir()) / "uploaded_document"
UploadDir == <<"tmp", "uploaded_document">>
\* tmp / uploaded_file.name
Dst(name) == Append(UploadDir, name)
\* Path(p).name
PathName(p) == p[Len(p)]

Paths == {Dst(n) : n \in FileNames}

\* outcomes of an external call
Raise == [kind |-> "raise", value |-> ""]
Return(v) == [kind |-> "return", value |-> v]

\* slice seq[-k:]
LastK(seq, k) == IF Len(seq) <= k THEN seq ELSE SubSeq(seq, Len(seq) - k + 1, Len(seq))
\* reversed(seq)
Reversed(seq) == [i \in 1..Len(seq) |-> seq[Len(seq) + 1 - i]]

\* nothing rendered yet
BlankScreen ==
    [uploaded   |-> "",
     doc        |-> "",
     docInfo    |-> FALSE,
     warning    |-> FALSE,
     buttons    |-> {"reindex"},
     written    |-> None,
     chatInfo   |-> FALSE,
     chatShown  |-> FALSE,
     turns      |-> << >>,
     exportShown |-> FALSE,
     downloads  |-> {},
     noContent  |-> FALSE,
     error      |-> FALSE]

---------------------------------------------------------------------------
(* The script.  A run works on a record r: the session's st.session_state, *)
(* the file store, the screen being rendered, the external calls made and  *)
(* whether an exception has ended the run.                                 *)

\* variant: the file is opened with "xb", an existing file is kept
save_uploaded_file_exclusive(files, uploaded_file, dst_path) ==
    IF files[dst_path] = NoData
    THEN [files EXCEPT ![dst_path] = uploaded_file.data]
    ELSE files

\* save_uploaded_file: open(dst_path, "wb"); f.write(uploaded_file.read())
save_uploaded_file(files, uploaded_file, dst_path) ==
    [files EXCEPT ![dst_path] = uploaded_file.data]

\* variant: a new upload invalidates the cached summary
UploadSectionInvalidate(r, uploaded_file) ==
    IF uploaded_file # NoFile
    THEN LET dst == Dst(uploaded_file.name)
         IN  [r EXCEPT !.fs = [r.fs EXCEPT ![dst] = uploaded_file.data],
                       !.uploaded_path = dst,
                       !.last_summary = None,
                       !.scr.uploaded = uploaded_file.name]
    ELSE r

\* variant: uploaded_path follows the uploader, an empty uploader clears it
UploadSectionForget(r, uploaded_file) ==
    IF uploaded_file # NoFile
    THEN LET dst == Dst(uploaded_file.name)
         IN  [r EXCEPT !.fs = [r.fs EXCEPT ![dst] = uploaded_file.data],
                       !.uploaded_path = dst,
                       !.scr.uploaded = uploaded_file.name]
    ELSE [r EXCEPT !.uploaded_path = NoPath]

\* lines 116-128: the upload section
UploadSection(r, uploaded_file) ==
    IF uploaded_file # NoFile
    THEN LET dst == Dst(uploaded_file.name)
         IN  [r EXCEPT !.fs = save_uploaded_file(r.fs, uploaded_file, dst),
                       !.uploaded_path = dst,
                       !.scr.uploaded = uploaded_file.name]
    ELSE r

\* lines 134-156: the Document Overview tab
DocumentTab(r) ==
    IF r.uploaded_path # NoPath
    THEN [r EXCEPT !.scr.doc = PathName(r.uploaded_path)]
    ELSE [r EXCEPT !.scr.docInfo = TRUE]

\* what a reader finds at path p
ReadFile(files, p) == IF p \in DOMAIN files THEN files[p] ELSE NoData

\* one external call: recorded with its arguments and the file content at path
CallExternal(r, fn, args, out) ==
    [r EXCEPT !.calls = Append(r.calls,
                  [fn |-> fn, args |-> args,
                   file |-> ReadFile(r.fs, r.uploaded_path),
                   outcome |-> out.kind, result |-> out.value]),
              !.raised = (out.kind = "raise"),
              !.scr.error = (out.kind = "raise")]

\* st.button(label) renders the button
Button(r, b) == [r EXCEPT !.scr.buttons = @ \cup {b}]

\* variant: the result is stored whether or not the call raised
StoreSummaryAlways(r, out) ==
    [r EXCEPT !.last_summary = out.value, !.scr.written = out.value]

\* lines 170-172: after generate_summary returned
StoreSummary(r, out) ==
    IF r.raised THEN r
    ELSE [r EXCEPT !.last_summary = out.value, !.scr.written = out.value]

\* variant: the slider is ignored, the default temperature is passed
SummaryColumnDefaultTemp(r, click, w, out) ==
    IF r.raised THEN r
    ELSE IF click = "summary"
    THEN StoreSummary(
             CallExternal(Button(r, "summary"), "generate_summary",
                 [path |-> r.uploaded_path, model |-> w.model,
                  temperature |-> TempDefault], out), out)
    ELSE Button(r, "summary")

\* lines 166-172: column c1
SummaryColumn(r, click, w, out) ==
    IF r.raised THEN r
    ELSE IF click = "summary"
    THEN StoreSummary(
             CallExternal(Button(r, "summary"), "generate_summary",
                 [path |-> r.uploaded_path, model |-> w.model,
                  temperature |-> w.temp], out), out)
    ELSE Button(r, "summary")

\* lines 177-179: after generate_insights returned
StoreInsights(r, out) ==
    IF r.raised THEN r
    ELSE [r EXCEPT !.last_insights = out.value, !.scr.written = out.value]

\* lines 173-179: column c2
InsightsColumn(r, click, w, out) ==
    IF r.raised THEN r
    ELSE IF click = "insights"
    THEN StoreInsights(
             CallExternal(Button(r, "insights"), "generate_insights",
                 [path |-> r.uploaded_path, model |-> w.model,
                  chunk_size |-> w.chunk_size], out), out)
    ELSE Button(r, "insights")

\* lines 184-186: after generate_mcq returned
StoreMcqs(r, out) ==
    IF r.raised THEN r
    ELSE [r EXCEPT !.last_mcqs = out.value, !.scr.written = out.value]

\* lines 180-186: column c3
McqColumn(r, click, w, out) ==
    IF r.raised THEN r
    ELSE IF click = "mcqs"
    THEN StoreMcqs(
             CallExternal(Button(r, "mcqs"), "generate_mcq",
                 [path |-> r.uploaded_path, num_questions |-> NumQuestions,
                  model |-> w.model], out), out)
    ELSE Button(r, "mcqs")

\* line 192: st.success(result)
ShowResult(r, out) ==
    IF r.raised THEN r ELSE [r EXCEPT !.scr.written = out.value]

\* lines 188-192: the reindex trigger of the sidebar, handled in the Actions tab
ReindexSection(r, click, w, out) ==
    IF r.raised THEN r
    ELSE IF click = "reindex"
    THEN ShowResult(
             CallExternal(r, "build_retrieval_index",
                 [path |-> r.uploaded_path, chunk_size |-> w.chunk_size], out),
             out)
    ELSE r

\* variant: the Actions tab without the check for a document
ActionsTabUnguarded(r, click, w, out) ==
    ReindexSection(
        McqColumn(
            InsightsColumn(
                SummaryColumn(r, click, w, out),
                click, w, out),
            click, w, out),
        click, w, out)

\* lines 159-192: the Actions tab
ActionsTab(r, click, w, out) ==
    IF r.uploaded_path = NoPath
    THEN [r EXCEPT !.scr.warning = TRUE]
    ELSE ReindexSection(
             McqColumn(
                 InsightsColumn(
                     SummaryColumn(r, click, w, out),
                     click, w, out),
                 click, w, out),
             click, w, out)

\* variant: the turn is inserted at the head of the history
AppendTurnFront(r, query, out) ==
    IF r.raised THEN r
    ELSE [r EXCEPT !.chat_history = <<[q |-> query, a |-> out.value]>> \o @]

\* line 208: chat_history.append({"q": query, "a": ans})
AppendTurn(r, query, out) ==
    IF r.raised THEN r
    ELSE [r EXCEPT !.chat_history = Append(@, [q |-> query, a |-> out.value])]

\* lines 204-209: the query input and the Ask button
AskSection(r, click, w, query, out) ==
    IF click = "ask" /\ query # ""
    THEN AppendTurn(
             CallExternal(Button(r, "ask"), "answer_question",
                 [path |-> r.uploaded_path, query |-> query,
                  model |-> w.model], out),
             query, out)
    ELSE Button(r, "ask")

\* variant: reversed(chat_history[:5]), the oldest five turns
RenderTurnsOldest(history) ==
    Reversed(IF Len(history) <= ShownTurns THEN history
             ELSE SubSeq(history, 1, ShownTurns))

\* reversed(chat_history[-5:])
RenderTurns(history) == Reversed(LastK(history, ShownTurns))

\* lines 210-214: the rendered turns
ShowTurns(r) ==
    IF r.raised THEN r
    ELSE [r EXCEPT !.scr.chatShown = TRUE,
                   !.scr.turns = RenderTurns(r.chat_history)]

\* lines 195-214: the Chat & QA tab
ChatTab(r, click, w, query, out) ==
    IF r.raised THEN r
    ELSE IF r.uploaded_path = NoPath
    THEN [r EXCEPT !.scr.chatInfo = TRUE]
    ELSE ShowTurns(AskSection(r, click, w, query, out))

\* variant: "is not None" instead of truthiness
DownloadControlsNotNone(r) ==
    (IF r.last_summary # None
     THEN {[file_name |-> "summary.txt", data |-> r.last_summary]} ELSE {})
    \cup
    (IF r.last_insights # None
     THEN {[file_name |-> "insights.txt", data |-> r.last_insights]} ELSE {})
    \cup
    (IF r.last_mcqs # None
     THEN {[file_name |-> "mcqs.txt", data |-> r.last_mcqs]} ELSE {})

\* lines 220-225: the download controls
DownloadControls(r) ==
    (IF Truthy(r.last_summary)
     THEN {[file_name |-> "summary.txt", data |-> r.last_summary]} ELSE {})
    \cup
    (IF Truthy(r.last_insights)
     THEN {[file_name |-> "insights.txt", data |-> r.last_insights]} ELSE {})
    \cup
    (IF Truthy(r.last_mcqs)
     THEN {[file_name |-> "mcqs.txt", data |-> r.last_mcqs]} ELSE {})

\* lines 227-228: the "No downloadable content yet" message
NoContentMessage(r) ==
    ~(Truthy(r.last_summary) \/ Truthy(r.last_mcqs))

\* lines 217-228: the Exports tab
ExportTab(r) ==
    IF r.raised THEN r
    ELSE [r EXCEPT !.scr.exportShown = TRUE,
                   !.scr.downloads = DownloadControls(r),
                   !.scr.noContent = NoContentMessage(r)]

\* the session state of s, the file store and an empty screen
RunStart(s) ==
    [uploaded_path |-> uploaded_path[s],
     chat_history  |-> chat_history[s],
     last_summary  |-> last_summary[s],
     last_insights |-> last_insights[s],
     last_mcqs     |-> last_mcqs[s],
     fs            |-> fs,
     scr           |-> BlankScreen,
     calls         |-> << >>,
     raised        |-> FALSE]

\* one run of the script, lines 89-231
RunScript(r, uploaded_file, click, w, query, out) ==
    ExportTab(
        ChatTab(
            ActionsTab(
                DocumentTab(UploadSection(r, uploaded_file)),
                click, w, out),
            click, w, query, out))

\* the end of a run of session s: the new session state, files and screen
Commit(s, kind, uploaded_file, w, query, r) ==
    /\ uploader' = [uploader EXCEPT ![s] = uploaded_file]
    /\ model' = [model EXCEPT ![s] = w.model]
    /\ temp' = [temp EXCEPT ![s] = w.temp]
    /\ chunk_size' = [chunk_size EXCEPT ![s] = w.chunk_size]
    /\ uploaded_path' = [uploaded_path EXCEPT ![s] = r.uploaded_path]
    /\ chat_history' = [chat_history EXCEPT ![s] = r.chat_history]
    /\ last_summary' = [last_summary EXCEPT ![s] = r.last_summary]
    /\ last_insights' = [last_insights EXCEPT ![s] = r.last_insights]
    /\ last_mcqs' = [last_mcqs EXCEPT ![s] = r.last_mcqs]
    /\ fs' = r.fs
    /\ screen' = [screen EXCEPT ![s] = r.scr]
    /\ last' = [sess |-> s, kind |-> kind, query |-> query, calls |-> r.calls]

\* a script run of session s
Script(s, kind, uploaded_file, click, w, query, out) ==
    Commit(s, kind, uploaded_file, w, query,
           RunScript(RunStart(s), uploaded_file, click, w, query, out))

\* the widget values of session s
Widgets(s) == [model |-> model[s], temp |-> temp[s], chunk_size |-> chunk_size[s]]

---------------------------------------------------------------------------
(* User interactions *)

\* the user puts file f into the uploader
UploadFile(s, f) ==
    /\ f # NoFile
    /\ Script(s, "upload", f, "none", Widgets(s), "", Raise)

\* the user removes the file from the uploader
RemoveFile(s) ==
    /\ uploader[s] # NoFile
    /\ Script(s, "remove", NoFile, "none", Widgets(s), "", Raise)

\* the user selects another model
SelectModel(s, m) ==
    /\ m \in Models
    /\ m # model[s]
    /\ Script(s, "widget", uploader[s], "none",
              [Widgets(s) EXCEPT !.model = m], "", Raise)

\* the user moves the temperature slider
SetTemperature(s, t) ==
    /\ t \in TempValues
    /\ t # temp[s]
    /\ Script(s, "widget", uploader[s], "none",
              [Widgets(s) EXCEPT !.temp = t], "", Raise)

\* the user changes the chunk size
SetChunkSize(s, c) ==
    /\ c \in ChunkValues
    /\ c # chunk_size[s]
    /\ Script(s, "widget", uploader[s], "none",
              [Widgets(s) EXCEPT !.chunk_size = c], "", Raise)

\* the user clicks "Generate Summary"
ClickSummary(s, out) ==
    /\ "summary" \in screen[s].buttons
    /\ Script(s, "summary", uploader[s], "summary", Widgets(s), "", out)

\* the user clicks "Generate Insights"
ClickInsights(s, out) ==
    /\ "insights" \in screen[s].buttons
    /\ Script(s, "insights", uploader[s], "insights", Widgets(s), "", out)

\* the user clicks "Generate MCQs"
ClickMcqs(s, out) ==
    /\ "mcqs" \in screen[s].buttons
    /\ Script(s, "mcqs", uploader[s], "mcqs", Widgets(s), "", out)

\* the user clicks "Ask" with query in the text input
ClickAsk(s, query, out, cap) ==
    /\ "ask" \in screen[s].buttons
    /\ Len(chat_history[s]) < cap
    /\ Script(s, "ask", uploader[s], "ask", Widgets(s), query, out)

\* the user clicks "Rebuild Retrieval Index" in the sidebar
ClickReindex(s, out) ==
    /\ "reindex" \in screen[s].buttons
    /\ Script(s, "reindex", uploader[s], "reindex", Widgets(s), "", out)

---------------------------------------------------------------------------
(* Specifications *)

\* the first page load of a session: a run with no file and no trigger
FirstLoad ==
    RunScript([uploaded_path |-> NoPath, chat_history |-> << >>,
               last_summary |-> None, last_insights |-> None,
               last_mcqs |-> None,
               fs |-> [p \in Paths |-> NoData], scr |-> BlankScreen,
               calls |-> << >>, raised |-> FALSE],
              NoFile, "none",
              [model |-> valid_models[ModelIndex], temp |-> TempDefault,
               chunk_size |-> ChunkDefault], "", Raise)

\* every session has loaded the page once
InitFrom(r) ==
    /\ uploader = [s \in Sessions |-> NoFile]
    /\ model = [s \in Sessions |-> valid_models[ModelIndex]]
    /\ temp = [s \in Sessions |-> TempDefault]
    /\ chunk_size = [s \in Sessions |-> ChunkDefault]
    /\ uploaded_path = [s \in Sessions |-> r.uploaded_path]
    /\ chat_history = [s \in Sessions |-> r.chat_history]
    /\ last_summary = [s \in Sessions |-> r.last_summary]
    /\ last_insights = [s \in Sessions |-> r.last_insights]
    /\ last_mcqs = [s \in Sessions |-> r.last_mcqs]
    /\ fs = r.fs
    /\ screen = [s \in Sessions |-> r.scr]
    /\ last = [sess |-> "A", kind |-> "load", query |-> "", calls |-> << >>]

Init == InitFrom(FirstLoad)

\* the bytes session s uploads
DataOf(s) == "bytes-" \o s
FilesOf(s) == {[name |-> n, data |-> DataOf(s)] : n \in FileNames}

\* texts an external function returns
Texts == {"", "text-1"}
Outcomes == {Raise} \cup {Return(v) : v \in Texts}
\* answers of answer_question, and queries typed
Answers == {"answer-1", "answer-2"}
AskOutcomes == {Raise} \cup {Return(v) : v \in Answers}
Queries == {"", "query-1", "query-2"}
ChatQueries == {"", "query-1"}

\* widget values the user changes to
TempChoices == {TempDefault, TempMax}
ChunkChoices == {ChunkDefault, ChunkMin}

\* one session: uploads and every trigger, widgets of the sidebar untouched
Next ==
    \E s \in {"A"} :
        \/ \E f \in FilesOf(s) : UploadFile(s, f)
        \/ RemoveFile(s)
        \/ \E out \in Outcomes : ClickSummary(s, out)
        \/ \E out \in Outcomes : ClickInsights(s, out)
        \/ \E out \in Outcomes : ClickMcqs(s, out)
        \/ \E q \in Queries, out \in AskOutcomes : ClickAsk(s, q, out, MaxChat)
        \/ \E out \in Outcomes : ClickReindex(s, out)

Spec == Init /\ [][Next]_vars

\* one session: the sidebar widgets and the three generators
NextWidgets ==
    \E s \in {"A"} :
        \/ \E f \in FilesOf(s) : UploadFile(s, f)
        \/ \E m \in Models : SelectModel(s, m)
        \/ \E t \in TempChoices : SetTemperature(s, t)
        \/ \E c \in ChunkChoices : SetChunkSize(s, c)
        \/ \E out \in Outcomes : ClickSummary(s, out)
        \/ \E out \in Outcomes : ClickInsights(s, out)
        \/ \E out \in Outcomes : ClickMcqs(s, out)

SpecWidgets == Init /\ [][NextWidgets]_vars

\* one session: a long chat
NextChat ==
    \E s \in {"A"} :
        \/ \E f \in FilesOf(s) : UploadFile(s, f)
        \/ RemoveFile(s)
        \/ \E q \in ChatQueries, out \in AskOutcomes : ClickAsk(s, q, out, MaxHist)

SpecChat == Init /\ [][NextChat]_vars

\* two sessions sharing the upload directory, one file name
MultiFiles(s) == {f \in FilesOf(s) : f.name = "report.pdf"}
MultiOutcomes == {Return("text-1")}

NextMulti ==
    \E s \in Sessions :
        \/ \E f \in MultiFiles(s) : UploadFile(s, f)
        \/ RemoveFile(s)
        \/ \E out \in MultiOutcomes : ClickSummary(s, out)
        \/ \E out \in MultiOutcomes : ClickInsights(s, out)
        \/ \E out \in MultiOutcomes : ClickMcqs(s, out)
        \/ \E out \in {Return("answer-1")} : ClickAsk(s, "query-1", out, MaxChatMulti)
        \/ \E out \in MultiOutcomes : ClickReindex(s, out)

SpecMulti == Init /\ [][NextMulti]_vars

---------------------------------------------------------------------------
(* Properties *)

\* the session state fields of session s
SessionState(s) ==
    <<uploaded_path[s], chat_history[s], last_summary[s], last_insights[s],
      last_mcqs[s]>>

\* p is a prefix of q
IsPrefix(p, q) == Len(p) <= Len(q) /\ SubSeq(q, 1, Len(p)) = p

Min(a, b) == IF a <= b THEN a ELSE b

\* the names of the downloads on a screen
DownloadNames(scr) == {d.file_name : d \in scr.downloads}

\* C1: while a session has no uploaded document, no run of it calls an
\* external function and its run shows the "Upload a document first" warning
\* and the "Upload a file to start chatting" notice instead of the triggers;
\* every external call made is given a document path.
C1_NoCallWithoutDocument ==
    /\ \A s \in Sessions :
           uploaded_path[s] = NoPath =>
               /\ last.sess = s => last.calls = << >>
               /\ screen[s].warning
               /\ screen[s].chatInfo
               /\ screen[s].buttons = {"reindex"}
               /\ ~screen[s].error
    /\ \A i \in 1..Len(last.calls) : last.calls[i].args.path # NoPath

\* C1 witness: Rebuild Index was triggered in a session without a document
C1_Witness ==
    /\ last.kind = "reindex"
    /\ uploaded_path[last.sess] = NoPath
    /\ screen[last.sess].warning

\* C2: a trigger of Generate Summary / Insights / MCQs makes exactly one call,
\* of the matching function, with the stored path, the selected model and the
\* selected temperature / chunk size / the count 10, and a returned value is
\* stored verbatim in last_summary / last_insights / last_mcqs.
C2_GeneratorsCallOnceAndStore ==
    LET s == last.sess
        c == last.calls
    IN  /\ last.kind = "summary" =>
               /\ Len(c) = 1
               /\ c[1].fn = "generate_summary"
               /\ c[1].args = [path |-> uploaded_path[s], model |-> model[s],
                               temperature |-> temp[s]]
               /\ c[1].outcome = "return" => last_summary[s] = c[1].result
        /\ last.kind = "insights" =>
               /\ Len(c) = 1
               /\ c[1].fn = "generate_insights"
               /\ c[1].args = [path |-> uploaded_path[s], model |-> model[s],
                               chunk_size |-> chunk_size[s]]
               /\ c[1].outcome = "return" => last_insights[s] = c[1].result
        /\ last.kind = "mcqs" =>
               /\ Len(c) = 1
               /\ c[1].fn = "generate_mcq"
               /\ c[1].args = [path |-> uploaded_path[s],
                               num_questions |-> 10, model |-> model[s]]
               /\ c[1].outcome = "return" => last_mcqs[s] = c[1].result

\* C2 witness: a summary generated with a model and a temperature the user chose
C2_Witness ==
    /\ last.kind = "summary"
    /\ model[last.sess] = "gpt-4o"
    /\ temp[last.sess] = TempMax
    /\ last_summary[last.sess] = "text-1"
    /\ last_mcqs[last.sess] = "text-1"
    /\ last_insights[last.sess] = ""

\* C3: no step changes a chat history other than by appending one entry at its
\* end, and an Ask with a non-empty query whose call returns appends the entry
\* made of that query and the returned answer.
C3_ChatAppendOnly ==
    [][\A s \in Sessions :
           /\ IsPrefix(chat_history[s], chat_history'[s])
           /\ Len(chat_history'[s]) <= Len(chat_history[s]) + 1
           /\ (/\ last'.sess = s
               /\ last'.kind = "ask"
               /\ last'.query # ""
               /\ last'.calls # << >>
               /\ last'.calls[1].outcome = "return")
              => chat_history'[s] =
                     Append(chat_history[s],
                            [q |-> last'.query, a |-> last'.calls[1].result])
           /\ (last'.sess = s /\ last'.kind = "ask" /\ last'.query # "")
              => /\ Len(last'.calls) = 1
                 /\ last'.calls[1].fn = "answer_question"
                 /\ last'.calls[1].args.query = last'.query
      ]_vars

\* C3 witness: two Asks with different queries and answers, in call order
C3_Witness ==
    /\ last.kind = "ask"
    /\ chat_history["A"] = <<[q |-> "query-2", a |-> "answer-1"],
                             [q |-> "query-1", a |-> "answer-2"]>>

\* C4: when a run renders the turns of the Chat tab, it renders the min(n, 5)
\* last entries of the chat history of length n, the most recent first.
C4_RendersLastFiveReversed ==
    \A s \in Sessions :
        screen[s].chatShown =>
            LET n == Len(chat_history[s])
                t == screen[s].turns
            IN  /\ Len(t) = Min(n, 5)
                /\ \A i \in 1..Len(t) : t[i] = chat_history[s][n + 1 - i]

\* C4 witness: a sixth entry was appended and rendered first; the oldest is not rendered
C4_Witness ==
    /\ last.kind = "ask"
    /\ last.calls # << >>
    /\ Len(chat_history["A"]) = 6
    /\ Len(screen["A"].turns) = 5
    /\ screen["A"].turns[1] = chat_history["A"][6]
    /\ chat_history["A"][1] # chat_history["A"][2]

\* C5: when a run renders the Exports tab, it offers summary.txt iff
\* last_summary is non-empty, insights.txt iff last_insights is non-empty and
\* mcqs.txt iff last_mcqs is non-empty, each with the stored text, and it shows
\* the "No downloadable content yet" message when the three fields are absent.
C5_DownloadsMatchResults ==
    \A s \in Sessions :
        screen[s].exportShown =>
            /\ ("summary.txt" \in DownloadNames(screen[s]))
                   <=> (last_summary[s] # None /\ last_summary[s] # "")
            /\ ("insights.txt" \in DownloadNames(screen[s]))
                   <=> (last_insights[s] # None /\ last_insights[s] # "")
            /\ ("mcqs.txt" \in DownloadNames(screen[s]))
                   <=> (last_mcqs[s] # None /\ last_mcqs[s] # "")
            /\ \A d \in screen[s].downloads :
                   /\ d.file_name = "summary.txt" => d.data = last_summary[s]
                   /\ d.file_name = "insights.txt" => d.data = last_insights[s]
                   /\ d.file_name = "mcqs.txt" => d.data = last_mcqs[s]
            /\ (last_summary[s] = None /\ last_insights[s] = None
                    /\ last_mcqs[s] = None) => screen[s].noContent

\* C5 witness: an empty summary and a non-empty MCQ text are stored
C5_Witness ==
    /\ screen["A"].exportShown
    /\ last_summary["A"] = ""
    /\ last_insights["A"] = None
    /\ last_mcqs["A"] = "text-1"
    /\ DownloadNames(screen["A"]) = {"mcqs.txt"}

\* C6: an upload of a file named N sets uploaded_path to
\* tempdir/uploaded_document/N, whatever path was tracked before, writes the
\* file there and changes none of last_summary, last_insights, last_mcqs and
\* chat_history.
C6_UploadTracksPathKeepsResults ==
    [][last'.kind = "upload" =>
           LET s == last'.sess
           IN  /\ uploaded_path'[s] = <<"tmp", "uploaded_document", uploader'[s].name>>
               /\ uploaded_path'[s][Len(uploaded_path'[s])] = uploader'[s].name
               /\ fs'[uploaded_path'[s]] = uploader'[s].data
               /\ last_summary'[s] = last_summary[s]
               /\ last_insights'[s] = last_insights[s]
               /\ last_mcqs'[s] = last_mcqs[s]
               /\ chat_history'[s] = chat_history[s]
      ]_vars

\* C6 witness: a second document was uploaded over cached results of the first
C6_Witness ==
    /\ last.kind = "upload"
    /\ uploaded_path["A"] = Dst("data.csv")
    /\ fs[Dst("report.pdf")] # NoData
    /\ last_summary["A"] = "text-1"
    /\ chat_history["A"] # << >>

\* C7: a run in which an external call raises makes that one call only, shows
\* the error and leaves last_summary, last_insights, last_mcqs and
\* chat_history of the session as they were.
C7_RaiseLeavesNoPartialOutput ==
    [][(last'.calls # << >> /\ last'.calls[Len(last'.calls)].outcome = "raise") =>
           LET s == last'.sess
           IN  /\ Len(last'.calls) = 1
               /\ screen'[s].error
               /\ last_summary'[s] = last_summary[s]
               /\ last_insights'[s] = last_insights[s]
               /\ last_mcqs'[s] = last_mcqs[s]
               /\ chat_history'[s] = chat_history[s]
      ]_vars

\* C7 witness: generate_summary raised while an earlier summary was stored
C7_Witness ==
    /\ last.calls # << >>
    /\ last.calls[1].fn = "generate_summary"
    /\ last.calls[1].outcome = "raise"
    /\ screen["A"].error
    /\ last_summary["A"] = "text-1"
    /\ chat_history["A"] # << >>

\* C8: a run of one session changes no other session's uploaded_path,
\* chat_history, last_summary, last_insights or last_mcqs; the file store is
\* shared: two sessions that uploaded the same file name track the same path,
\* a run with a file in the uploader leaves that file's bytes at the path for
\* every session tracking it, and an external call reads what is at the path.
C8_SessionsIsolatedFilesShared ==
    [][LET s == last'.sess
       IN  /\ \A t \in Sessions \ {s} : SessionState(t)' = SessionState(t)
           /\ \A t \in Sessions :
                  (uploaded_path'[t] # NoPath /\ uploaded_path'[s] # NoPath
                   /\ PathName(uploaded_path'[t]) = PathName(uploaded_path'[s]))
                  => uploaded_path'[t] = uploaded_path'[s]
           /\ uploader'[s] # NoFile =>
                  \A t \in Sessions :
                      uploaded_path'[t] = Dst(uploader'[s].name)
                      => fs'[uploaded_path'[t]] = uploader'[s].data
           /\ \A i \in 1..Len(last'.calls) :
                  last'.calls[i].file = fs'[uploaded_path'[s]]
      ]_vars

\* C8 witness: A's call read the bytes B uploaded under the same file name
C8_Witness ==
    /\ uploaded_path["A"] = uploaded_path["B"]
    /\ uploaded_path["A"] # NoPath
    /\ last.sess = "A"
    /\ last.calls # << >>
    /\ last.calls[1].file = DataOf("B")
    /\ last_summary["B"] = "text-1"

\* C9: a session starts with no document and no results; a set uploaded_path
\* never becomes absent again; a non-empty result or chat history implies an
\* uploaded_path.
C9_DocumentStateMonotone ==
    /\ \A s \in Sessions :
           /\ uploaded_path[s] = NoPath
           /\ chat_history[s] = << >>
           /\ ~Truthy(last_summary[s])
           /\ ~Truthy(last_insights[s])
           /\ ~Truthy(last_mcqs[s])
    /\ [](\A s \in Sessions :
              (\/ Truthy(last_summary[s])
               \/ Truthy(last_insights[s])
               \/ Truthy(last_mcqs[s])
               \/ chat_history[s] # << >>)
              => uploaded_path[s] # NoPath)
    /\ [][\A s \in Sessions :
              uploaded_path[s] # NoPath => uploaded_path'[s] # NoPath]_vars

\* C9 witness: the file was removed from the uploader and the path is still tracked
C9_Witness ==
    /\ last.kind = "remove"
    /\ uploader["A"] = NoFile
    /\ uploaded_path["A"] # NoPath
    /\ last_insights["A"] = "text-1"

\* C10: when a run renders the Exports tab, the "No downloadable content yet"
\* message is shown exactly when no download control is, that is exactly when
\* last_summary, last_insights and last_mcqs are all empty.
C10_MessageIffNoDownload ==
    \A s \in Sessions :
        screen[s].exportShown =>
            /\ screen[s].noContent <=> (screen[s].downloads = {})
            /\ screen[s].noContent <=>
                   (/\ ~Truthy(last_summary[s])
                    /\ ~Truthy(last_insights[s])
                    /\ ~Truthy(last_mcqs[s]))

=============================================================================
